---------------------------- MODULE Spec2Model ----------------------------
(***************************************************************************)
(* Model of the minimal RAG backend.                                       *)
(*                                                                         *)
(*   crew_pipeline_simple.py : two LFU caches (pdf_cache, query_cache),    *)
(*       the session MemoryManager, the keyword search and the cached      *)
(*       run_full_pipeline.  Specification: Spec.                          *)
(*   main_minimal.py : the FastAPI handlers over uploaded_pdfs.            *)
(*       Specification: SpecApi.  main_minimal.py does not import the      *)
(*       pipeline module, so its handlers never touch the pipeline state.  *)
(*                                                                         *)
(* Python strings are sequences of one-character strings; str.lower,       *)
(* str.split, the substring test and os.path.basename are computed on      *)
(* those sequences.                                                        *)
(***************************************************************************)
EXTENDS Integers, Sequences, FiniteSets, TLC

VARIABLES
    groq_api_key,   \* module global read once from the environment (line 11)
    pdf_cache,      \* LFUCache(maxsize=10): [data, counter]
    query_cache,    \* LFUCache(maxsize=100): [data, counter]
    sessions,       \* memory_manager.sessions: session_id -> [history, messages]
    ret,            \* the last pipeline-module call: its arguments and what it returned
    uploaded_pdfs,  \* main_minimal.uploaded_pdfs: pdf_id -> pdf_path
    files,          \* temporary files present on disk (paths)
    resp,           \* the last HTTP request handled and its response
    inflight        \* upload requests suspended at "await file.read()"

vars == <<groq_api_key, pdf_cache, query_cache, sessions, ret,
          uploaded_pdfs, files, resp, inflight>>

pipelineVars == <<groq_api_key, pdf_cache, query_cache, sessions, ret>>
apiVars == <<uploaded_pdfs, files, resp, inflight>>
\* what a handler of main_minimal.py that runs without suspension leaves alone
restVars == <<pipelineVars, inflight>>

---------------------------------------------------------------------------
(* Bounds of the model *)

\* capacity of pdf_cache in the model (the program's is 10)
pdf_cache_maxsize == 2
\* capacity of query_cache in the model (the program's is 100)
query_cache_maxsize == 2
\* an LFU access count is not read again once it reaches this value
MaxCount == 2
\* a pipeline body is not run for a session whose history could pass this length
MaxHistory == 3
\* number of temporary-file names the upload handler can draw
MaxUploads == 3
\* number of upload requests that can be suspended at the same time
MaxInflight == 2
\* longest list of texts handed to simple_text_search, and its largest k
MaxTexts == 3

---------------------------------------------------------------------------
(* Python string helpers *)

Min(a, b) == IF a <= b THEN a ELSE b

\* str.lower() on one character
LowerChar(c) ==
    CASE c = "A" -> "a"
      [] c = "B" -> "b"
      [] c = "C" -> "c"
      [] c = "P" -> "p"
      [] c = "D" -> "d"
      [] c = "F" -> "f"
      [] OTHER -> c

\* str.lower()
Lower(s) == [i \in 1..Len(s) |-> LowerChar(s[i])]

IsSpace(c) == c \in {" ", "\n", "\t"}

\* str.split(): maximal runs of non-whitespace characters
RECURSIVE SplitFrom(_, _, _)
SplitFrom(s, i, cur) ==
    IF i > Len(s)
    THEN IF cur = <<>> THEN <<>> ELSE <<cur>>
    ELSE IF IsSpace(s[i])
         THEN IF cur = <<>>
              THEN SplitFrom(s, i + 1, <<>>)
              ELSE <<cur>> \o SplitFrom(s, i + 1, <<>>)
         ELSE SplitFrom(s, i + 1, Append(cur, s[i]))

Split(s) == SplitFrom(s, 1, <<>>)

\* Python's "w in t" on strings
IsSubstring(w, t) ==
    \E i \in 0..(Len(t) - Len(w)) :
        \A j \in 1..Len(w) : t[i + j] = w[j]

\* str.endswith
EndsWith(s, suffix) ==
    /\ Len(s) >= Len(suffix)
    /\ \A j \in 1..Len(suffix) : s[Len(s) - Len(suffix) + j] = suffix[j]

\* sep.join(parts)
RECURSIVE Join(_, _)
Join(sep, parts) ==
    IF parts = <<>> THEN <<>>
    ELSE IF Len(parts) = 1 THEN parts[1]
    ELSE parts[1] \o sep \o Join(sep, Tail(parts))

\* s[:n]
Prefix(s, n) == SubSeq(s, 1, Min(n, Len(s)))

\* os.path.basename on a path given as its characters
RECURSIVE LastSlash(_, _)
LastSlash(p, i) ==
    IF i = 0 THEN 0
    ELSE IF p[i] = "/" THEN i ELSE LastSlash(p, i - 1)

Basename(p) == SubSeq(p, LastSlash(p, Len(p)) + 1, Len(p))

---------------------------------------------------------------------------
(* Inputs of the model *)

NumPaths == pdf_cache_maxsize + 1

NameChars == <<"a", "b", "c", "d", "e", "f", "g", "h">>

\* the temporary-file path with the i-th name: "/t/<name>.pdf"
TmpPath(i) == <<"/", "t", "/", NameChars[i], ".", "p", "d", "f">>

\* PDF paths handed to the pipeline
PdfPaths == {TmpPath(i) : i \in 1..NumPaths}

\* user queries: "b C" and "a"
Queries == {<<"b", " ", "C">>, <<"a">>}

SessionIds == {"default", "s1"}

\* page texts pypdf extracts from the readable PDF at path p
Document(p) == << <<"a", "b">>, <<"B", " ", "c">>, Basename(p) >>

\* the path at which no readable file exists
MissingPath == TmpPath(1)

\* what load_pdf_chunks returns for p: [] (missing or unreadable) or the pages
FileReads(p) == IF p = MissingPath THEN {<<>>} ELSE {Document(p)}

\* load_pdf_chunks(pdf_path) over the files on disk: [] when the path does
\* not exist or PdfReader raises, else the text of each page
load_pdf_chunks(disk, pdf_path, readable) ==
    IF pdf_path \notin disk THEN <<>>
    ELSE IF ~readable THEN <<>>
    ELSE Document(pdf_path)

\* texts searched directly: "ab", "B c", "c", "A", "d"
SearchPages == {<<"a", "b">>, <<"B", " ", "c">>, <<"c">>, <<"A">>, <<"d">>}

\* the lists of texts handed to simple_text_search
TextLists == UNION {[1..n -> SearchPages] : n \in 0..MaxTexts}

\* queries searched directly: "b C", "a", "a a c", "" and " B"
SearchQueries ==
    {<<"b", " ", "C">>, <<"a">>, <<"a", " ", "a", " ", "c">>, <<>>, <<" ", "B">>}

\* the k values passed to simple_text_search
SearchKs == 0..MaxTexts

\* how the hosted-LLM branch can end
LLMOutcomes == {"import_error", "ctor_error", "invoke_error", "ok"}

\* llm_response.content
LLMContents == {"L1"}

---------------------------------------------------------------------------
(* cachetools.LFUCache: data plus an access counter per key *)

EmptyCache == [data |-> <<>>, counter |-> <<>>]

LFU_contains(c, k) == k \in DOMAIN c.data

LFU_currsize(c) == Cardinality(DOMAIN c.data)

\* LFUCache.__getitem__: the read counts as one access
LFU_getitem(c, k) ==
    [c EXCEPT !.counter = [c.counter EXCEPT ![k] = @ + 1]]

Without(f, k) == [x \in DOMAIN f \ {k} |-> f[x]]

With(f, k, v) == [x \in DOMAIN f \cup {k} |-> IF x = k THEN v ELSE f[x]]

\* popitem of a most-frequently-used policy: the keys whose count is greatest
LFU_victims_most_used(c) ==
    {k \in DOMAIN c.data : \A j \in DOMAIN c.data : c.counter[k] >= c.counter[j]}

\* LFUCache.popitem candidates: the keys whose access count is least
LFU_victims(c) ==
    {k \in DOMAIN c.data : \A j \in DOMAIN c.data : c.counter[k] <= c.counter[j]}

LFU_pop(c, k) == [data |-> Without(c.data, k), counter |-> Without(c.counter, k)]

\* Cache.__setitem__'s "while currsize + size > maxsize: popitem()"; the
\* caches reachable after it, one per choice among equally-used victims
RECURSIVE LFU_evict(_, _)
LFU_evict(c, maxsize) ==
    IF LFU_currsize(c) + 1 > maxsize /\ DOMAIN c.data # {}
    THEN UNION {LFU_evict(LFU_pop(c, k), maxsize) : k \in LFU_victims(c)}
    ELSE {c}

\* LFUCache.__setitem__ for a key that is not present: evict, store, count 1
LFU_setitem(c, maxsize, k, v) ==
    {[data |-> With(d.data, k, v), counter |-> With(d.counter, k, 1)] :
        d \in LFU_evict(c, maxsize)}

---------------------------------------------------------------------------
(* simple_text_search and extract_relevant_clause *)

\* score = sum(1 for word in query_words if word in text_lower)
Score(query_words, text) ==
    Cardinality({i \in 1..Len(query_words) :
                    IsSubstring(query_words[i], Lower(text))})

\* the (score, text) pairs with score > 0, in the order of texts
RECURSIVE ScoredTexts(_, _)
ScoredTexts(query_words, texts) ==
    IF texts = <<>> THEN <<>>
    ELSE LET sc == Score(query_words, Head(texts))
             rest == ScoredTexts(query_words, Tail(texts))
         IN IF sc > 0 THEN <<[score |-> sc, text |-> Head(texts)]>> \o rest
            ELSE rest

\* an insertion that puts x before the elements of equal score
RECURSIVE InsertByScore_before_equals(_, _)
InsertByScore_before_equals(sorted, x) ==
    IF sorted = <<>> THEN <<x>>
    ELSE IF Head(sorted).score > x.score
         THEN <<Head(sorted)>> \o InsertByScore_before_equals(Tail(sorted), x)
         ELSE <<x>> \o sorted

\* insert x after every element whose score is >= x.score
RECURSIVE InsertByScore(_, _)
InsertByScore(sorted, x) ==
    IF sorted = <<>> THEN <<x>>
    ELSE IF Head(sorted).score >= x.score
         THEN <<Head(sorted)>> \o InsertByScore(Tail(sorted), x)
         ELSE <<x>> \o sorted

\* list.sort(key=score, reverse=True): stable, highest score first
RECURSIVE SortByScore(_)
SortByScore(scored) ==
    IF scored = <<>> THEN <<>>
    ELSE InsertByScore(SortByScore(SubSeq(scored, 1, Len(scored) - 1)),
                       scored[Len(scored)])

simple_text_search(query, texts, k) ==
    LET sorted == SortByScore(ScoredTexts(Split(Lower(query)), texts))
    IN [i \in 1..Min(k, Len(sorted)) |-> sorted[i].text]

\* the (context, metadata_info) pair computed from the index's texts
extract_relevant_clause(texts, pdf_path, user_query, k) ==
    LET relevant_passages == simple_text_search(user_query, texts, k)
    IN IF relevant_passages = <<>>
       THEN [context |-> <<>>, metadata |-> <<>>]
       ELSE [context |-> Join(<<"\n", "\n">>, relevant_passages),
             metadata |-> [i \in 1..Len(relevant_passages) |->
                             [content |-> relevant_passages[i],
                              pdf_name |-> Basename(pdf_path),
                              page |-> <<"Page", i>>,
                              score |-> 1]]]

---------------------------------------------------------------------------
(* Values the pipeline stores and returns *)

\* len of the context slice in the mock answer: context[:500]
mock_context_limit == 500

\* A formatted text: the template that produced it and the values put in it
Text(template, question, context, pdf_id, session_id, text) ==
    [template |-> template, question |-> question, context |-> context,
     pdf_id |-> pdf_id, session_id |-> session_id, text |-> text]

\* the content of a "User" history entry: the query text itself
UserContent(user_query) == Text("query", user_query, <<>>, <<>>, "", "")

\* the mock_answer f-string: the fixed template around the query and context[:500]
MockAnswer(user_query, context) ==
    Text("pipeline_mock", user_query, Prefix(context, mock_context_limit), <<>>, "", "")

\* llm_response.content
LLMAnswer(content) == Text("llm", <<>>, <<>>, <<>>, "", content)

NoAnswer == Text("none", <<>>, <<>>, <<>>, "", "")

NoResult == [answer |-> NoAnswer, metadata |-> <<>>]

NoIndex == [texts |-> <<>>, pdf_path |-> <<>>]

EmptyMemory == [history |-> <<>>, messages |-> <<>>]

NoCall ==
    [op |-> "none", user_query |-> <<>>, pdf_path |-> <<>>, session_id |-> "",
     hit |-> FALSE, result |-> NoResult, index |-> NoIndex,
     evicted |-> {}, pdf_evicted |-> {}, llm |-> "", llm_invoked |-> FALSE,
     existed |-> FALSE, k |-> 0, passages |-> <<>>]

\* the history the pipeline reads for a session (get_memory creates it empty)
HistoryOf(ss, session_id) ==
    IF session_id \in DOMAIN ss THEN ss[session_id].history ELSE <<>>

---------------------------------------------------------------------------
(* MemoryManager *)

\* MemoryManager.get_memory: the sessions map after the call
get_memory(ss, session_id) ==
    IF session_id \notin DOMAIN ss THEN With(ss, session_id, EmptyMemory) ELSE ss

\* a reset that assigns the empty record without the membership test
reset_memory_creates(ss, session_id) == With(ss, session_id, EmptyMemory)

\* MemoryManager.reset_memory: the sessions map after the call
reset_memory(ss, session_id) ==
    IF session_id \in DOMAIN ss
    THEN [ss EXCEPT ![session_id] = EmptyMemory]
    ELSE ss

\* memory["history"].append(...) for each entry of msgs
AppendHistory(ss, session_id, msgs) ==
    [ss EXCEPT ![session_id].history = @ \o msgs]

---------------------------------------------------------------------------
(* get_or_create_indexes *)

\* the index kept in a plain dict: stored without any eviction
get_or_create_indexes_unbounded(cache, pdf_path, chunks) ==
    IF LFU_contains(cache, pdf_path)
    THEN {[cache |-> LFU_getitem(cache, pdf_path), index |-> cache.data[pdf_path]]}
    ELSE LET index_data == [texts |-> chunks, pdf_path |-> pdf_path]
         IN {[cache |-> [data |-> With(cache.data, pdf_path, index_data),
                         counter |-> With(cache.counter, pdf_path, 1)],
              index |-> index_data]}

\* the (pdf_cache, returned index) pairs the call can end in, given what
\* load_pdf_chunks returns when it is reached
get_or_create_indexes(cache, pdf_path, chunks) ==
    IF LFU_contains(cache, pdf_path)
    THEN {[cache |-> LFU_getitem(cache, pdf_path), index |-> cache.data[pdf_path]]}
    ELSE LET index_data == [texts |-> chunks, pdf_path |-> pdf_path]
         IN {[cache |-> c, index |-> index_data] :
                c \in LFU_setitem(cache, pdf_cache_maxsize, pdf_path, index_data)}

\* the read of a cached key stays within the model's access-count bound
CanRead(cache, k) == LFU_contains(cache, k) => cache.counter[k] < MaxCount

---------------------------------------------------------------------------
(* run_full_pipeline: the decorated body *)

\* k=10 in the body's call of extract_relevant_clause
pipeline_k == 10

\* os.getenv("GROQ_API_KEY"): unset or empty (falsy), or a key
GroqKeys == {"", "gsk"}

HistoryEntry(role, content) == [role |-> role, content |-> content]

\* the body with only "except ImportError": an error raised by ChatGroq or by
\* llm.invoke leaves the function with no answer
run_full_pipeline_body_uncaught(api_key, cache, ss, user_query, pdf_path, session_id, chunks, llm, content) ==
    {LET rc == extract_relevant_clause(g.index.texts, pdf_path, user_query, pipeline_k)
         memory == get_memory(ss, session_id)
         user == HistoryEntry("User", UserContent(user_query))
         mock_answer == MockAnswer(user_query, rc.context)
     IN IF api_key # "" /\ llm = "ok"
        THEN [pdf_cache |-> g.cache,
              sessions |-> AppendHistory(memory, session_id,
                              <<user, HistoryEntry("Assistant", LLMAnswer(content))>>),
              result |-> [answer |-> LLMAnswer(content), metadata |-> rc.metadata],
              llm_invoked |-> TRUE]
        ELSE IF api_key # "" /\ llm \in {"ctor_error", "invoke_error"}
        THEN [pdf_cache |-> g.cache,
              sessions |-> IF llm = "invoke_error"
                           THEN AppendHistory(memory, session_id, <<user>>)
                           ELSE memory,
              result |-> NoResult,
              llm_invoked |-> llm = "invoke_error"]
        ELSE [pdf_cache |-> g.cache,
              sessions |-> AppendHistory(memory, session_id,
                              <<user, HistoryEntry("Assistant", mock_answer)>>),
              result |-> [answer |-> mock_answer, metadata |-> rc.metadata],
              llm_invoked |-> FALSE]
     : g \in get_or_create_indexes(cache, pdf_path, chunks)}

\* The body of run_full_pipeline on a cache miss.  chunks is what
\* load_pdf_chunks returns if it is reached, llm how the hosted-LLM branch
\* ends if it is entered, content the LLM's reply.  The outcomes differ only
\* in pdf_cache's choice among equally-used victims.
run_full_pipeline_body(api_key, cache, ss, user_query, pdf_path, session_id, chunks, llm, content) ==
    {LET rc == extract_relevant_clause(g.index.texts, pdf_path, user_query, pipeline_k)
         memory == get_memory(ss, session_id)
         user == HistoryEntry("User", UserContent(user_query))
         mock_answer == MockAnswer(user_query, rc.context)
         Fallback(ss1, invoked) ==
            [pdf_cache |-> g.cache,
             sessions |-> AppendHistory(ss1, session_id,
                             <<user, HistoryEntry("Assistant", mock_answer)>>),
             result |-> [answer |-> mock_answer, metadata |-> rc.metadata],
             llm_invoked |-> invoked]
     IN IF api_key # "" /\ llm = "ok"
        THEN [pdf_cache |-> g.cache,
              sessions |-> AppendHistory(memory, session_id,
                              <<user, HistoryEntry("Assistant", LLMAnswer(content))>>),
              result |-> [answer |-> LLMAnswer(content), metadata |-> rc.metadata],
              llm_invoked |-> TRUE]
        ELSE IF api_key # "" /\ llm = "invoke_error"
        \* line 192 has appended the user message before llm.invoke raises
        THEN Fallback(AppendHistory(memory, session_id, <<user>>), TRUE)
        ELSE Fallback(memory, FALSE)
     : g \in get_or_create_indexes(cache, pdf_path, chunks)}

---------------------------------------------------------------------------
(* main_minimal.py: requests and responses *)

\* max_size = 10 * 1024 * 1024
max_size == 10 * 1024 * 1024

\* len(content) of an upload
ContentSizes == {0, max_size - 1, max_size, max_size + 1}

\* file.filename of an upload: "a.pdf", "a.PDF", "a.txt", "pdf", ".pdf"
Filenames ==
    {<<"a", ".", "p", "d", "f">>, <<"a", ".", "P", "D", "F">>,
     <<"a", ".", "t", "x", "t">>, <<"p", "d", "f">>, <<".", "p", "d", "f">>}

\* the names tempfile can give a new file
UploadPaths == {TmpPath(i) : i \in 1..MaxUploads}

\* the pdf_id values a request can carry
PdfIds == {Basename(p) : p \in UploadPaths}

\* the size test written with >=
TooLarge_inclusive(size) == size >= max_size

\* if len(content) > max_size
TooLarge(size) == size > max_size

\* file.filename.endswith('.pdf')
IsPdfName(filename) == EndsWith(filename, <<".", "p", "d", "f">>)

\* how saving the upload to a temporary file can end
SaveOutcomes == {"ok", "create_fails", "write_fails"}

\* the mock_answer f-string of query_pdf, stripped
ApiMockAnswer(question, pdf_id, session_id) ==
    Text("api_mock", question, <<>>, pdf_id, session_id, "")

\* [{"content": "Mock response", "pdf_name": pdf_id, "page": "N/A"}]
ApiMockMetadata(pdf_id) ==
    << [content |-> <<"Mock response">>, pdf_name |-> pdf_id, page |-> <<"N/A">>] >>

NoResp ==
    [op |-> "none", status |-> 0, pdf_id |-> <<>>, filename |-> <<>>, size |-> 0,
     question |-> <<>>, session_id |-> "", answer |-> NoAnswer, metadata |-> <<>>,
     pdfs |-> {}, count |-> 0, known |-> FALSE, save |-> "", detail |-> ""]

---------------------------------------------------------------------------
(* Pipeline-module operations *)

Init ==
    /\ groq_api_key \in GroqKeys
    /\ pdf_cache = EmptyCache
    /\ query_cache = EmptyCache
    /\ sessions = <<>>
    /\ ret = NoCall
    /\ uploaded_pdfs = <<>>
    /\ files = {}
    /\ resp = NoResp
    /\ inflight = {}

\* a direct call get_or_create_indexes(pdf_path)
GetOrCreateIndexes(pdf_path) ==
    /\ CanRead(pdf_cache, pdf_path)
    /\ \E chunks \in FileReads(pdf_path) :
       \E g \in get_or_create_indexes(pdf_cache, pdf_path, chunks) :
          /\ pdf_cache' = g.cache
          /\ ret' = [NoCall EXCEPT !.op = "get_or_create_indexes",
                                   !.pdf_path = pdf_path,
                                   !.hit = LFU_contains(pdf_cache, pdf_path),
                                   !.index = g.index,
                                   !.pdf_evicted = DOMAIN pdf_cache.data \ DOMAIN g.cache.data]
    /\ UNCHANGED <<groq_api_key, query_cache, sessions, apiVars>>

\* a call that reads the file again on a hit and replaces the cached index
GetOrCreateIndexesOnDisk_rereads(pdf_path, readable) ==
    /\ CanRead(pdf_cache, pdf_path)
    /\ LET index_data == [texts |-> load_pdf_chunks(files, pdf_path, readable),
                          pdf_path |-> pdf_path]
       IN \E g \in get_or_create_indexes(pdf_cache, pdf_path, index_data.texts) :
          /\ pdf_cache' = [g.cache EXCEPT !.data[pdf_path] = index_data]
          /\ ret' = [NoCall EXCEPT !.op = "get_or_create_indexes",
                                   !.pdf_path = pdf_path,
                                   !.hit = LFU_contains(pdf_cache, pdf_path),
                                   !.index = index_data,
                                   !.pdf_evicted = DOMAIN pdf_cache.data \ DOMAIN g.cache.data]
    /\ UNCHANGED <<groq_api_key, query_cache, sessions, apiVars>>

\* a direct call get_or_create_indexes(pdf_path) against the files on disk;
\* readable: whether PdfReader can read the file if load_pdf_chunks opens it
GetOrCreateIndexesOnDisk(pdf_path, readable) ==
    /\ CanRead(pdf_cache, pdf_path)
    /\ \E g \in get_or_create_indexes(pdf_cache, pdf_path,
                                      load_pdf_chunks(files, pdf_path, readable)) :
          /\ pdf_cache' = g.cache
          /\ ret' = [NoCall EXCEPT !.op = "get_or_create_indexes",
                                   !.pdf_path = pdf_path,
                                   !.hit = LFU_contains(pdf_cache, pdf_path),
                                   !.index = g.index,
                                   !.pdf_evicted = DOMAIN pdf_cache.data \ DOMAIN g.cache.data]
    /\ UNCHANGED <<groq_api_key, query_cache, sessions, apiVars>>

\* a cache key that leaves the session out: every session shares one entry
CacheKey_without_session(user_query, pdf_path, session_id) ==
    <<user_query, pdf_path, "default">>

\* cache_key = (user_query, pdf_path, session_id)
CacheKey(user_query, pdf_path, session_id) == <<user_query, pdf_path, session_id>>

\* a hit that also records the turn in the session's memory
RunFullPipelineHit_records_turn(user_query, pdf_path, session_id) ==
    LET cache_key == CacheKey(user_query, pdf_path, session_id)
    IN /\ LFU_contains(query_cache, cache_key)
       /\ CanRead(query_cache, cache_key)
       /\ Len(HistoryOf(sessions, session_id)) + 2 <= MaxHistory
       /\ query_cache' = LFU_getitem(query_cache, cache_key)
       /\ sessions' = AppendHistory(get_memory(sessions, session_id), session_id,
                         <<HistoryEntry("User", UserContent(user_query)),
                           HistoryEntry("Assistant", query_cache.data[cache_key].answer)>>)
       /\ ret' = [NoCall EXCEPT !.op = "run_full_pipeline",
                                !.user_query = user_query,
                                !.pdf_path = pdf_path,
                                !.session_id = session_id,
                                !.hit = TRUE,
                                !.result = query_cache.data[cache_key]]
       /\ UNCHANGED <<groq_api_key, pdf_cache, apiVars>>

\* cache_query.wrapper, cache_key in query_cache: return the stored result
RunFullPipelineHit(user_query, pdf_path, session_id) ==
    LET cache_key == CacheKey(user_query, pdf_path, session_id)
    IN /\ LFU_contains(query_cache, cache_key)
       /\ CanRead(query_cache, cache_key)
       /\ query_cache' = LFU_getitem(query_cache, cache_key)
       /\ ret' = [NoCall EXCEPT !.op = "run_full_pipeline",
                                !.user_query = user_query,
                                !.pdf_path = pdf_path,
                                !.session_id = session_id,
                                !.hit = TRUE,
                                !.result = query_cache.data[cache_key]]
       /\ UNCHANGED <<groq_api_key, pdf_cache, sessions, apiVars>>

\* a wrapper that stores only answers the LLM gave: a mock result is returned
\* but not cached
RunFullPipelineMiss_skips_mock(user_query, pdf_path, session_id) ==
    LET cache_key == CacheKey(user_query, pdf_path, session_id)
    IN /\ ~LFU_contains(query_cache, cache_key)
       /\ CanRead(pdf_cache, pdf_path)
       /\ Len(HistoryOf(sessions, session_id)) + 3 <= MaxHistory
       /\ \E chunks \in FileReads(pdf_path), llm \in LLMOutcomes, content \in LLMContents :
          \E b \in run_full_pipeline_body(groq_api_key, pdf_cache, sessions, user_query,
                                          pdf_path, session_id, chunks, llm, content) :
          \E qc \in LFU_setitem(query_cache, query_cache_maxsize, cache_key, b.result) :
             /\ pdf_cache' = b.pdf_cache
             /\ sessions' = b.sessions
             /\ query_cache' = IF b.result.answer.template = "pipeline_mock"
                               THEN query_cache ELSE qc
             /\ ret' = [NoCall EXCEPT !.op = "run_full_pipeline",
                                      !.user_query = user_query,
                                      !.pdf_path = pdf_path,
                                      !.session_id = session_id,
                                      !.result = b.result,
                                      !.llm = IF groq_api_key = "" THEN "" ELSE llm,
                                      !.llm_invoked = b.llm_invoked,
                                      !.existed = session_id \in DOMAIN sessions]
       /\ UNCHANGED <<groq_api_key, apiVars>>

\* cache_query.wrapper, cache_key not in query_cache: run the body, store its result
RunFullPipelineMiss(user_query, pdf_path, session_id) ==
    LET cache_key == CacheKey(user_query, pdf_path, session_id)
    IN /\ ~LFU_contains(query_cache, cache_key)
       /\ CanRead(pdf_cache, pdf_path)
       /\ Len(HistoryOf(sessions, session_id)) + 3 <= MaxHistory
       /\ \E chunks \in FileReads(pdf_path), llm \in LLMOutcomes, content \in LLMContents :
          \E b \in run_full_pipeline_body(groq_api_key, pdf_cache, sessions, user_query,
                                          pdf_path, session_id, chunks, llm, content) :
          \E qc \in LFU_setitem(query_cache, query_cache_maxsize, cache_key, b.result) :
             /\ pdf_cache' = b.pdf_cache
             /\ sessions' = b.sessions
             /\ query_cache' = qc
             /\ ret' = [NoCall EXCEPT !.op = "run_full_pipeline",
                                      !.user_query = user_query,
                                      !.pdf_path = pdf_path,
                                      !.session_id = session_id,
                                      !.result = b.result,
                                      !.evicted = DOMAIN query_cache.data \ DOMAIN qc.data,
                                      !.pdf_evicted = DOMAIN pdf_cache.data \ DOMAIN b.pdf_cache.data,
                                      !.llm = IF groq_api_key = "" THEN "" ELSE llm,
                                      !.llm_invoked = b.llm_invoked,
                                      !.existed = session_id \in DOMAIN sessions]
       /\ UNCHANGED <<groq_api_key, apiVars>>

\* run_full_pipeline(user_query, pdf_path, session_id), as decorated by cache_query
RunFullPipeline(user_query, pdf_path, session_id) ==
    \/ RunFullPipelineHit(user_query, pdf_path, session_id)
    \/ RunFullPipelineMiss(user_query, pdf_path, session_id)

\* a reset that also drops the session's cached answers from query_cache
ResetMemory_invalidates_cache(session_id) ==
    /\ sessions' = reset_memory(sessions, session_id)
    /\ query_cache' =
          LET keep == {k \in DOMAIN query_cache.data : k[3] # session_id}
          IN [data |-> [k \in keep |-> query_cache.data[k]],
              counter |-> [k \in keep |-> query_cache.counter[k]]]
    /\ ret' = [NoCall EXCEPT !.op = "reset_memory",
                             !.session_id = session_id,
                             !.existed = session_id \in DOMAIN sessions]
    /\ UNCHANGED <<groq_api_key, pdf_cache, apiVars>>

\* the module-level reset_memory(session_id)
ResetMemory(session_id) ==
    /\ sessions' = reset_memory(sessions, session_id)
    /\ ret' = [NoCall EXCEPT !.op = "reset_memory",
                             !.session_id = session_id,
                             !.existed = session_id \in DOMAIN sessions]
    /\ UNCHANGED <<groq_api_key, pdf_cache, query_cache, apiVars>>

\* the arguments of a call simple_text_search(query, texts, k) about to be made
SearchCall(query, texts, k) ==
    [NoCall EXCEPT !.op = "simple_text_search_call",
                   !.user_query = query,
                   !.index = [texts |-> texts, pdf_path |-> <<>>],
                   !.k = k]

\* the call simple_text_search(query, texts, k) returns
SimpleTextSearch ==
    /\ ret.op = "simple_text_search_call"
    /\ ret' = [ret EXCEPT !.op = "simple_text_search",
                          !.passages = simple_text_search(ret.user_query,
                                                          ret.index.texts, ret.k)]
    /\ UNCHANGED <<groq_api_key, pdf_cache, query_cache, sessions, apiVars>>

\* the calls a client makes with arguments drawn from the given sets
NextOver(Qs, Ps, Ss) ==
    \/ \E p \in Ps : GetOrCreateIndexes(p)
    \/ \E q \in Qs, p \in Ps, s \in Ss : RunFullPipeline(q, p, s)
    \/ \E s \in Ss : ResetMemory(s)

\* one query and one session over more PDF paths than pdf_cache holds
Next == NextOver({<<"b", " ", "C">>}, PdfPaths, {"default"})

Spec == Init /\ [][Next]_vars

\* two sessions over a missing and a readable PDF
NextSessions == NextOver({<<"b", " ", "C">>}, {TmpPath(1), TmpPath(2)}, SessionIds)

SpecSessions == Init /\ [][NextSessions]_vars

---------------------------------------------------------------------------
(* main_minimal.py: the request handlers *)

\* POST /pdf/upload
UploadPdf(filename, size, save) ==
    LET req == [NoResp EXCEPT !.op = "upload", !.filename = filename, !.size = size]
    IN \/ /\ ~IsPdfName(filename)
          /\ resp' = [req EXCEPT !.status = 400, !.detail = "Only PDF files allowed"]
          /\ UNCHANGED <<uploaded_pdfs, files, restVars>>
       \/ /\ IsPdfName(filename)
          /\ TooLarge(size)
          /\ resp' = [req EXCEPT !.status = 400, !.detail = "File too large"]
          /\ UNCHANGED <<uploaded_pdfs, files, restVars>>
       \/ /\ IsPdfName(filename)
          /\ ~TooLarge(size)
          /\ save = "create_fails"
          /\ resp' = [req EXCEPT !.status = 500, !.save = save,
                                 !.detail = "Failed to upload"]
          /\ UNCHANGED <<uploaded_pdfs, files, restVars>>
       \/ /\ IsPdfName(filename)
          /\ ~TooLarge(size)
          /\ save = "write_fails"
          \* delete=False: the file tempfile created stays on disk
          /\ \E pdf_path \in UploadPaths \ files :
                files' = files \cup {pdf_path}
          /\ resp' = [req EXCEPT !.status = 500, !.save = save,
                                 !.detail = "Failed to upload"]
          /\ UNCHANGED <<uploaded_pdfs, restVars>>
       \/ /\ IsPdfName(filename)
          /\ ~TooLarge(size)
          /\ save = "ok"
          /\ \E pdf_path \in UploadPaths \ files :
                LET pdf_id == Basename(pdf_path)
                IN /\ files' = files \cup {pdf_path}
                   /\ uploaded_pdfs' = With(uploaded_pdfs, pdf_id, pdf_path)
                   /\ resp' = [req EXCEPT !.status = 200, !.pdf_id = pdf_id,
                                          !.save = save,
                                          !.known = pdf_id \in DOMAIN uploaded_pdfs]
          /\ UNCHANGED restVars

\* a query handler that runs the pipeline's fallback path for the uploaded file
QueryPdf_runs_pipeline(pdf_id, question, session_id) ==
    LET req == [NoResp EXCEPT !.op = "query", !.pdf_id = pdf_id,
                              !.question = question, !.session_id = session_id,
                              !.known = pdf_id \in DOMAIN uploaded_pdfs]
    IN \/ /\ pdf_id \notin DOMAIN uploaded_pdfs
          /\ resp' = [req EXCEPT !.status = 404, !.detail = "not found"]
          /\ UNCHANGED <<uploaded_pdfs, files, restVars>>
       \/ /\ pdf_id \in DOMAIN uploaded_pdfs
          /\ Len(HistoryOf(sessions, session_id)) + 2 <= MaxHistory
          /\ LET rc == extract_relevant_clause(Document(uploaded_pdfs[pdf_id]),
                           uploaded_pdfs[pdf_id], question, pipeline_k)
                 answer == MockAnswer(question, rc.context)
             IN /\ resp' = [req EXCEPT !.status = 200, !.answer = answer]
                /\ sessions' = AppendHistory(get_memory(sessions, session_id), session_id,
                                  <<HistoryEntry("User", UserContent(question)),
                                    HistoryEntry("Assistant", answer)>>)
          /\ UNCHANGED <<uploaded_pdfs, files, groq_api_key, pdf_cache, query_cache, ret, inflight>>

\* POST /pdf/query
QueryPdf(pdf_id, question, session_id) ==
    LET req == [NoResp EXCEPT !.op = "query", !.pdf_id = pdf_id,
                              !.question = question, !.session_id = session_id,
                              !.known = pdf_id \in DOMAIN uploaded_pdfs]
    IN /\ \/ /\ pdf_id \notin DOMAIN uploaded_pdfs
             /\ resp' = [req EXCEPT !.status = 404, !.detail = "not found"]
          \/ /\ pdf_id \in DOMAIN uploaded_pdfs
             /\ resp' = [req EXCEPT !.status = 200,
                                    !.answer = ApiMockAnswer(question, pdf_id, session_id),
                                    !.metadata = ApiMockMetadata(pdf_id)]
       /\ UNCHANGED <<uploaded_pdfs, files, restVars>>

\* GET /pdf/list
ListPdfs ==
    /\ resp' = [NoResp EXCEPT !.op = "list", !.status = 200,
                              !.count = Cardinality(DOMAIN uploaded_pdfs),
                              !.pdfs = DOMAIN uploaded_pdfs]
    /\ UNCHANGED <<uploaded_pdfs, files, restVars>>

\* GET /health
HealthCheck ==
    /\ resp' = [NoResp EXCEPT !.op = "health", !.status = 200,
                              !.count = Cardinality(DOMAIN uploaded_pdfs)]
    /\ UNCHANGED <<uploaded_pdfs, files, restVars>>

\* a delete handler that pops the id only after the file was removed
DeletePdf_pop_after_remove(pdf_id, remove_ok) ==
    LET req == [NoResp EXCEPT !.op = "delete", !.pdf_id = pdf_id,
                              !.known = pdf_id \in DOMAIN uploaded_pdfs]
    IN \/ /\ pdf_id \notin DOMAIN uploaded_pdfs
          /\ resp' = [req EXCEPT !.status = 404, !.detail = "not found"]
          /\ UNCHANGED <<uploaded_pdfs, files, restVars>>
       \/ /\ pdf_id \in DOMAIN uploaded_pdfs
          /\ LET pdf_path == uploaded_pdfs[pdf_id]
             IN \/ /\ pdf_path \in files
                   /\ remove_ok
                   /\ files' = files \ {pdf_path}
                   /\ uploaded_pdfs' = Without(uploaded_pdfs, pdf_id)
                   /\ resp' = [req EXCEPT !.status = 200]
                \/ /\ pdf_path \in files
                   /\ ~remove_ok
                   /\ UNCHANGED <<files, uploaded_pdfs>>
                   /\ resp' = [req EXCEPT !.status = 500, !.detail = "Failed to delete"]
                \/ /\ pdf_path \notin files
                   /\ files' = files
                   /\ uploaded_pdfs' = Without(uploaded_pdfs, pdf_id)
                   /\ resp' = [req EXCEPT !.status = 200]
          /\ UNCHANGED restVars

\* an idempotent delete: an id that is not mapped is answered with success
DeletePdf_unknown_ok(pdf_id, remove_ok) ==
    LET req == [NoResp EXCEPT !.op = "delete", !.pdf_id = pdf_id,
                              !.known = pdf_id \in DOMAIN uploaded_pdfs]
    IN \/ /\ pdf_id \notin DOMAIN uploaded_pdfs
          /\ resp' = [req EXCEPT !.status = 200]
          /\ UNCHANGED <<uploaded_pdfs, files, restVars>>
       \/ /\ pdf_id \in DOMAIN uploaded_pdfs
          /\ uploaded_pdfs' = Without(uploaded_pdfs, pdf_id)
          /\ LET pdf_path == uploaded_pdfs[pdf_id]
             IN \/ /\ pdf_path \in files
                   /\ remove_ok
                   /\ files' = files \ {pdf_path}
                   /\ resp' = [req EXCEPT !.status = 200]
                \/ /\ pdf_path \in files
                   /\ ~remove_ok
                   /\ files' = files
                   /\ resp' = [req EXCEPT !.status = 500, !.detail = "Failed to delete"]
                \/ /\ pdf_path \notin files
                   /\ files' = files
                   /\ resp' = [req EXCEPT !.status = 200]
          /\ UNCHANGED restVars

\* DELETE /pdf/{pdf_id}; remove_ok: whether os.remove succeeds if it is called
DeletePdf(pdf_id, remove_ok) ==
    LET req == [NoResp EXCEPT !.op = "delete", !.pdf_id = pdf_id,
                              !.known = pdf_id \in DOMAIN uploaded_pdfs]
    IN \/ /\ pdf_id \notin DOMAIN uploaded_pdfs
          /\ resp' = [req EXCEPT !.status = 404, !.detail = "not found"]
          /\ UNCHANGED <<uploaded_pdfs, files, restVars>>
       \/ /\ pdf_id \in DOMAIN uploaded_pdfs
          /\ uploaded_pdfs' = Without(uploaded_pdfs, pdf_id)
          /\ LET pdf_path == uploaded_pdfs[pdf_id]
             IN \/ /\ pdf_path \in files
                   /\ remove_ok
                   /\ files' = files \ {pdf_path}
                   /\ resp' = [req EXCEPT !.status = 200]
                \/ /\ pdf_path \in files
                   /\ ~remove_ok
                   /\ files' = files
                   /\ resp' = [req EXCEPT !.status = 500, !.detail = "Failed to delete"]
                \/ /\ pdf_path \notin files
                   /\ files' = files
                   /\ resp' = [req EXCEPT !.status = 200]
          /\ UNCHANGED restVars

\* the environment removes a temporary file (nothing keeps files in place)
TmpFileRemoved(pdf_path) ==
    /\ pdf_path \in files
    /\ files' = files \ {pdf_path}
    /\ UNCHANGED <<uploaded_pdfs, resp, restVars>>

NextApi ==
    \/ \E f \in Filenames, n \in ContentSizes, sv \in SaveOutcomes : UploadPdf(f, n, sv)
    \/ \E id \in PdfIds, q \in Queries, s \in SessionIds : QueryPdf(id, q, s)
    \/ ListPdfs
    \/ HealthCheck
    \/ \E id \in PdfIds, ok \in BOOLEAN : DeletePdf(id, ok)
    \/ \E p \in UploadPaths : TmpFileRemoved(p)

SpecApi == Init /\ [][NextApi]_vars

\* a PDF file is put at pdf_path outside the program
PdfAppears(pdf_path) ==
    /\ pdf_path \notin files
    /\ files' = files \cup {pdf_path}
    /\ UNCHANGED <<uploaded_pdfs, resp, restVars>>

\* index calls while PDF files appear on and disappear from the disk
NextFiles ==
    \/ \E p \in PdfPaths, readable \in BOOLEAN : GetOrCreateIndexesOnDisk(p, readable)
    \/ \E p \in PdfPaths : PdfAppears(p)
    \/ \E p \in PdfPaths : TmpFileRemoved(p)

SpecFiles == Init /\ [][NextFiles]_vars

\* a call of simple_text_search with any query, list of texts and k
InitSearch ==
    /\ groq_api_key \in GroqKeys
    /\ pdf_cache = EmptyCache
    /\ query_cache = EmptyCache
    /\ sessions = <<>>
    /\ ret \in {SearchCall(q, texts, k) :
                   q \in SearchQueries, texts \in TextLists, k \in SearchKs}
    /\ uploaded_pdfs = <<>>
    /\ files = {}
    /\ resp = NoResp
    /\ inflight = {}

NextSearch == SimpleTextSearch

SpecSearch == InitSearch /\ [][NextSearch]_vars

---------------------------------------------------------------------------
(* main_minimal.py: requests handled concurrently on one event loop.  A      *)
(* handler runs without interruption up to its next await.  upload_pdf has   *)
(* one, "await file.read()" (line 67); query_pdf and delete_pdf have none.   *)

\* the slot a newly arrived upload request takes
FreeSlots == {i \in 1..MaxInflight : \A u \in inflight : u.slot # i}

\* file.filename of a concurrent upload: "a.pdf", "a.txt"
ConcFilenames == {<<"a", ".", "p", "d", "f">>, <<"a", ".", "t", "x", "t">>}

\* len(content) of a concurrent upload
ConcSizes == {max_size, max_size + 1}

\* POST /pdf/upload up to "await file.read()": the extension check
UploadBegin(filename, size) ==
    /\ FreeSlots # {}
    /\ LET slot == CHOOSE i \in FreeSlots : \A j \in FreeSlots : i <= j
           req == [NoResp EXCEPT !.op = "upload", !.filename = filename, !.size = size]
       IN \/ /\ ~IsPdfName(filename)
             /\ resp' = [req EXCEPT !.status = 400, !.detail = "Only PDF files allowed"]
             /\ UNCHANGED inflight
          \/ /\ IsPdfName(filename)
             /\ inflight' = inflight \cup {[slot |-> slot, filename |-> filename,
                                            size |-> size]}
             /\ UNCHANGED resp
    /\ UNCHANGED <<uploaded_pdfs, files, pipelineVars>>

\* a resumed upload that may be given the name of a file that exists
UploadResume_any_name(u, save) ==
    LET req == [NoResp EXCEPT !.op = "upload", !.filename = u.filename, !.size = u.size]
    IN /\ u \in inflight
       /\ inflight' = inflight \ {u}
       /\ \/ /\ TooLarge(u.size)
             /\ resp' = [req EXCEPT !.status = 400, !.detail = "File too large"]
             /\ UNCHANGED <<uploaded_pdfs, files>>
          \/ /\ ~TooLarge(u.size)
             /\ save = "create_fails"
             /\ resp' = [req EXCEPT !.status = 500, !.save = save,
                                    !.detail = "Failed to upload"]
             /\ UNCHANGED <<uploaded_pdfs, files>>
          \/ /\ ~TooLarge(u.size)
             /\ save = "write_fails"
             /\ \E pdf_path \in UploadPaths :
                   files' = files \cup {pdf_path}
             /\ resp' = [req EXCEPT !.status = 500, !.save = save,
                                    !.detail = "Failed to upload"]
             /\ UNCHANGED uploaded_pdfs
          \/ /\ ~TooLarge(u.size)
             /\ save = "ok"
             /\ \E pdf_path \in UploadPaths :
                   LET pdf_id == Basename(pdf_path)
                   IN /\ files' = files \cup {pdf_path}
                      /\ uploaded_pdfs' = With(uploaded_pdfs, pdf_id, pdf_path)
                      /\ resp' = [req EXCEPT !.status = 200, !.pdf_id = pdf_id,
                                             !.save = save,
                                             !.known = pdf_id \in DOMAIN uploaded_pdfs]
       /\ UNCHANGED pipelineVars

\* POST /pdf/upload from "await file.read()" to its end: the size check, the
\* temporary file, the mapping; u is the suspended request that resumes
UploadResume(u, save) ==
    LET req == [NoResp EXCEPT !.op = "upload", !.filename = u.filename, !.size = u.size]
    IN /\ u \in inflight
       /\ inflight' = inflight \ {u}
       /\ \/ /\ TooLarge(u.size)
             /\ resp' = [req EXCEPT !.status = 400, !.detail = "File too large"]
             /\ UNCHANGED <<uploaded_pdfs, files>>
          \/ /\ ~TooLarge(u.size)
             /\ save = "create_fails"
             /\ resp' = [req EXCEPT !.status = 500, !.save = save,
                                    !.detail = "Failed to upload"]
             /\ UNCHANGED <<uploaded_pdfs, files>>
          \/ /\ ~TooLarge(u.size)
             /\ save = "write_fails"
             /\ \E pdf_path \in UploadPaths \ files :
                   files' = files \cup {pdf_path}
             /\ resp' = [req EXCEPT !.status = 500, !.save = save,
                                    !.detail = "Failed to upload"]
             /\ UNCHANGED uploaded_pdfs
          \/ /\ ~TooLarge(u.size)
             /\ save = "ok"
             /\ \E pdf_path \in UploadPaths \ files :
                   LET pdf_id == Basename(pdf_path)
                   IN /\ files' = files \cup {pdf_path}
                      /\ uploaded_pdfs' = With(uploaded_pdfs, pdf_id, pdf_path)
                      /\ resp' = [req EXCEPT !.status = 200, !.pdf_id = pdf_id,
                                             !.save = save,
                                             !.known = pdf_id \in DOMAIN uploaded_pdfs]
       /\ UNCHANGED pipelineVars

\* the suspended uploads a step can resume
Suspended == [slot : 1..MaxInflight, filename : ConcFilenames, size : ConcSizes]

\* uploads, deletes and queries handled concurrently: each step runs one
\* handler from one suspension point to the next
NextConc ==
    \/ \E f \in ConcFilenames, n \in ConcSizes : UploadBegin(f, n)
    \/ \E u \in Suspended, sv \in SaveOutcomes : UploadResume(u, sv)
    \/ \E id \in PdfIds, ok \in BOOLEAN : DeletePdf(id, ok)
    \/ \E id \in PdfIds : QueryPdf(id, <<"a">>, "default")

SpecConc == Init /\ [][NextConc]_vars

---------------------------------------------------------------------------
(* Properties *)

\* the query_cache key of the call recorded in r
KeyOf(r) == <<r.user_query, r.pdf_path, r.session_id>>

IsMiss(r) == r.op = "run_full_pipeline" /\ ~r.hit

IsHit(r) == r.op = "run_full_pipeline" /\ r.hit

\* C1: pdf_cache never holds more entries than its capacity and query_cache
\* never more than its own, whatever calls were made (the capacities are
\* pdf_cache_maxsize and query_cache_maxsize, 10 and 100 in the program).
C1_CacheSizesBounded ==
    /\ LFU_currsize(pdf_cache) <= pdf_cache_maxsize
    /\ LFU_currsize(query_cache) <= query_cache_maxsize
    /\ DOMAIN pdf_cache.counter = DOMAIN pdf_cache.data
    /\ DOMAIN query_cache.counter = DOMAIN query_cache.data

\* C1 witness: a pipeline call found both caches full and evicted from both
C1_BothCachesOverflowed ==
    /\ IsMiss(ret)
    /\ ret.evicted # {}
    /\ ret.pdf_evicted # {}
    /\ LFU_currsize(pdf_cache) = pdf_cache_maxsize
    /\ LFU_currsize(query_cache) = query_cache_maxsize

\* one step of a cache c to d: a key stored into a full cache evicts exactly
\* one entry, of least access count; nothing is evicted otherwise
EvictionRule(c, d, maxsize) ==
    LET old == DOMAIN c.data
        added == DOMAIN d.data \ old
        evicted == old \ DOMAIN d.data
    IN /\ (added # {} /\ Cardinality(old) = maxsize) =>
             /\ Cardinality(evicted) = 1
             /\ \A e \in evicted : \A k \in old : c.counter[e] <= c.counter[k]
       /\ Cardinality(old) < maxsize => evicted = {}
       /\ added = {} => evicted = {}
       /\ Cardinality(added) <= 1
       /\ \A k \in added : d.counter[k] = 1
       /\ \A k \in old \ evicted :
             /\ d.data[k] = c.data[k]
             /\ d.counter[k] \in {c.counter[k], c.counter[k] + 1}

\* C2: storing a new key into a full cache evicts exactly one entry, one whose
\* access count (1 for the insertion plus 1 per cache-hit read) is least among
\* the entries present, and the new key is present afterwards; below capacity
\* nothing is evicted.
C2_EvictsLeastUsed ==
    [][/\ EvictionRule(pdf_cache, pdf_cache', pdf_cache_maxsize)
       /\ EvictionRule(query_cache, query_cache', query_cache_maxsize)
       /\ IsMiss(ret') => KeyOf(ret') \in DOMAIN query_cache'.data
       /\ (IsMiss(ret') \/ ret'.op = "get_or_create_indexes")
             => ret'.pdf_path \in DOMAIN pdf_cache'.data]_vars

\* C2 witness: a miss evicted from the full query_cache while an entry that
\* had been read more often stayed
C2_EvictedWhileMoreUsedStayed ==
    /\ IsMiss(ret)
    /\ ret.evicted # {}
    /\ \E k \in DOMAIN query_cache.data : query_cache.counter[k] > 1

\* C3: every session's history has even length and alternates User,
\* Assistant, User, Assistant, ...
C3_HistoryAlternates ==
    \A s \in DOMAIN sessions :
        LET h == sessions[s].history
        IN /\ Len(h) % 2 = 0
           /\ \A i \in 1..Len(h) :
                 h[i].role = IF i % 2 = 1 THEN "User" ELSE "Assistant"

\* C4 (as stated): a successful POST /pdf/query returns the answer and
\* metadata run_full_pipeline produces for (question, pdf_path, session_id),
\* and the session's history ends with that question/answer turn.
C4_QueryRunsPipeline ==
    (resp.op = "query" /\ resp.status = 200 /\ resp.pdf_id \in DOMAIN uploaded_pdfs) =>
        LET pdf_path == uploaded_pdfs[resp.pdf_id]
            h == HistoryOf(sessions, resp.session_id)
        IN \E chunks \in {<<>>, Document(pdf_path)}, llm \in LLMOutcomes,
              content \in LLMContents :
           \E b \in run_full_pipeline_body(groq_api_key, EmptyCache, <<>>, resp.question,
                                           pdf_path, resp.session_id, chunks, llm, content) :
              /\ resp.answer = b.result.answer
              /\ Len(h) >= 2
              /\ h[Len(h) - 1] = HistoryEntry("User", UserContent(resp.question))
              /\ h[Len(h)] = HistoryEntry("Assistant", resp.answer)
              /\ resp.metadata = b.result.metadata

\* C4 (amended): POST /pdf/query for an uploaded pdf_id does not run the
\* pipeline: it returns 200 with the handler's own mock answer built from the
\* question, the pdf_id and the session_id, the one-entry mock metadata and
\* the session_id, and no session, pdf_cache or query_cache entry exists
\* because of it.
C4_QueryReturnsMock ==
    (resp.op = "query" /\ resp.known) =>
        /\ resp.status = 200
        /\ resp.answer = ApiMockAnswer(resp.question, resp.pdf_id, resp.session_id)
        /\ resp.metadata = ApiMockMetadata(resp.pdf_id)
        /\ sessions = <<>>
        /\ pdf_cache = EmptyCache
        /\ query_cache = EmptyCache

\* C4 witness: a query for an uploaded pdf_id was answered
C4_QueryAnswered ==
    /\ resp.op = "query"
    /\ resp.status = 200
    /\ resp.pdf_id \in DOMAIN uploaded_pdfs

\* C5 (as stated): an upload is accepted exactly when the name ends with
\* ".pdf" and the content is at most 10MB, and every upload that is not
\* accepted gets 400.
C5_AcceptedIffNameAndSize ==
    resp.op = "upload" =>
        /\ resp.status = 200 <=> (IsPdfName(resp.filename) /\ resp.size <= max_size)
        /\ resp.status # 200 => resp.status = 400

\* C5 (amended): an upload is accepted exactly when the name ends with ".pdf",
\* the content is at most 10MB (exactly 10MB is accepted) and saving the
\* temporary file does not raise; a wrong extension or an oversized payload
\* gets 400, a failed save gets 500; every upload that is not accepted leaves
\* uploaded_pdfs unchanged; and a wrong extension is reported whatever the size.
C5_UploadValidation ==
    [][resp'.op = "upload" =>
        LET ext == IsPdfName(resp'.filename)
            fits == resp'.size <= max_size
        IN /\ resp'.status \in {200, 400, 500}
           /\ resp'.status = 400 <=> ~(ext /\ fits)
           /\ resp'.status = 500 <=> (ext /\ fits /\ resp'.save \in {"create_fails", "write_fails"})
           /\ resp'.status = 200 <=> (ext /\ fits /\ resp'.save = "ok")
           /\ resp'.status = 200 =>
                 /\ resp'.pdf_id \in DOMAIN uploaded_pdfs'
                 /\ Basename(uploaded_pdfs'[resp'.pdf_id]) = resp'.pdf_id
           /\ resp'.status # 200 => uploaded_pdfs' = uploaded_pdfs
           /\ ~ext => resp'.detail = "Only PDF files allowed"
           /\ (ext /\ ~fits) => resp'.detail = "File too large"]_vars

\* C5 witness: an upload of exactly 10MB was accepted
C5_TenMegabytesAccepted ==
    /\ resp.op = "upload"
    /\ resp.status = 200
    /\ resp.size = max_size
    /\ resp.pdf_id \in DOMAIN uploaded_pdfs

\* C6: a cache-miss run_full_pipeline always returns a result; with no API
\* key, a missing client library or an error raised by the LLM's construction
\* or call, the answer is the mock string with the retrieved metadata; only a
\* successful LLM call makes the answer the LLM's content.
C6_LLMFailureFallsBack ==
    IsMiss(ret) =>
        LET rc == extract_relevant_clause(pdf_cache.data[ret.pdf_path].texts,
                                          ret.pdf_path, ret.user_query, pipeline_k)
        IN /\ ret.result.metadata = rc.metadata
           /\ IF groq_api_key # "" /\ ret.llm = "ok"
              THEN /\ ret.result.answer.template = "llm"
                   /\ ret.result.answer.text \in LLMContents
              ELSE ret.result.answer = MockAnswer(ret.user_query, rc.context)

\* C6 witness: llm.invoke raised and the call returned the mock answer with
\* metadata on retrieved passages
C6_InvokeErrorGaveMock ==
    /\ IsMiss(ret)
    /\ groq_api_key # ""
    /\ ret.llm = "invoke_error"
    /\ ret.result.answer.template = "pipeline_mock"
    /\ ret.result.metadata # <<>>

\* C7: reset_memory(s) for an existing session leaves s with empty history
\* and messages and changes no other session and neither cache; for a session
\* that does not exist it creates no entry and changes nothing.
C7_ResetFrame ==
    [][ret'.op = "reset_memory" =>
        LET s == ret'.session_id
        IN /\ DOMAIN sessions' = DOMAIN sessions
           /\ s \in DOMAIN sessions =>
                 /\ sessions'[s].history = <<>>
                 /\ sessions'[s].messages = <<>>
           /\ \A t \in DOMAIN sessions \ {s} : sessions'[t] = sessions[t]
           /\ pdf_cache' = pdf_cache
           /\ query_cache' = query_cache
           /\ ret'.existed = (s \in DOMAIN sessions)]_vars

\* C7 witness: a session with history was reset while another session kept
\* its history and query_cache kept its entries
C7_ResetOneOfTwo ==
    /\ ret.op = "reset_memory"
    /\ ret.existed
    /\ sessions[ret.session_id] = EmptyMemory
    /\ \E t \in DOMAIN sessions \ {ret.session_id} : sessions[t].history # <<>>
    /\ \E k \in DOMAIN query_cache.data : k[3] = ret.session_id

\* C8 (as stated, as a step property): once DELETE was handled for a present
\* pdf_id, that pdf_id is absent from uploaded_pdfs and stays absent.
C8_DeletedStaysAbsent ==
    [][(resp.op = "delete" /\ resp.known /\ resp.pdf_id \notin DOMAIN uploaded_pdfs)
          => resp.pdf_id \notin DOMAIN uploaded_pdfs']_vars

\* C8 (amended): after DELETE is handled for a present pdf_id the id is absent
\* from uploaded_pdfs whether the handler returned success or 500, and all
\* other ids keep their mapping; an absent id becomes present again only by
\* an accepted upload that is given that id; while it is absent, a query or a
\* delete for it returns 404 and /pdf/list does not list it.
C8_DeleteRemovesId ==
    [][/\ (resp'.op = "delete" /\ resp'.known) =>
             /\ resp'.pdf_id \notin DOMAIN uploaded_pdfs'
             /\ resp'.status \in {200, 500}
             /\ DOMAIN uploaded_pdfs' \subseteq DOMAIN uploaded_pdfs
             /\ \A id \in DOMAIN uploaded_pdfs \ {resp'.pdf_id} :
                   /\ id \in DOMAIN uploaded_pdfs'
                   /\ uploaded_pdfs'[id] = uploaded_pdfs[id]
       /\ \A id \in PdfIds :
             (id \notin DOMAIN uploaded_pdfs /\ id \in DOMAIN uploaded_pdfs') =>
                 (resp'.op = "upload" /\ resp'.status = 200 /\ resp'.pdf_id = id)
       /\ (resp'.op \in {"query", "delete"} /\ resp' # resp
              /\ resp'.pdf_id \notin DOMAIN uploaded_pdfs) => resp'.status = 404
       /\ (resp'.op = "list" /\ resp' # resp) => resp'.pdfs = DOMAIN uploaded_pdfs]_vars

\* C8 witness: a DELETE ended in 500, its pdf_id is gone and another id is
\* still mapped
C8_FailedDeleteStillRemoved ==
    /\ resp.op = "delete"
    /\ resp.known
    /\ resp.status = 500
    /\ resp.pdf_id \notin DOMAIN uploaded_pdfs
    /\ DOMAIN uploaded_pdfs # {}

\* C9: a run_full_pipeline call whose key is in query_cache returns the stored
\* result and changes nothing but that key's access count: no session entry
\* or history, no pdf_cache entry, no LLM call.
C9_CacheHitFrame ==
    [][IsHit(ret') =>
        LET key == KeyOf(ret')
        IN /\ key \in DOMAIN query_cache.data
           /\ ret'.result = query_cache.data[key]
           /\ ~ret'.llm_invoked
           /\ sessions' = sessions
           /\ pdf_cache' = pdf_cache
           /\ query_cache'.data = query_cache.data
           /\ \A k \in DOMAIN query_cache.data :
                 query_cache'.counter[k] =
                    query_cache.counter[k] + (IF k = key THEN 1 ELSE 0)]_vars

\* C9 witness: a cached answer was returned for a session whose memory had
\* been reset, and the history is still empty
C9_HitAfterReset ==
    /\ IsHit(ret)
    /\ ret.session_id \in DOMAIN sessions
    /\ sessions[ret.session_id].history = <<>>
    /\ ret.result.answer.template \in {"pipeline_mock", "llm"}

\* a is a proper prefix of b
ProperPrefix(a, b) == Len(a) < Len(b) /\ SubSeq(b, 1, Len(a)) = a

\* C10: a cache-miss run_full_pipeline for session s appends to s's history
\* only; and a call is answered from query_cache only by the entry stored under
\* its own (query, PDF, session) key, so an entry of another session with the
\* same query and PDF path is never returned for it.
C10_SessionsIsolated ==
    [][ret'.op = "run_full_pipeline" =>
        LET s == ret'.session_id
            key == KeyOf(ret')
        IN IF ret'.hit
           THEN /\ key \in DOMAIN query_cache.data
                /\ ret'.result = query_cache.data[key]
           ELSE /\ key \notin DOMAIN query_cache.data
                /\ DOMAIN sessions' = DOMAIN sessions \cup {s}
                /\ \A t \in DOMAIN sessions \ {s} : sessions'[t] = sessions[t]
                /\ ProperPrefix(HistoryOf(sessions, s), sessions'[s].history)]_vars

\* C10 witness: the pipeline body ran for a session although another session
\* had the same query and PDF path cached, and that other session has history
C10_MissBesideOtherSessionsEntry ==
    /\ IsMiss(ret)
    /\ \E t \in DOMAIN sessions \ {ret.session_id} :
          /\ <<ret.user_query, ret.pdf_path, t>> \in DOMAIN query_cache.data
          /\ sessions[t].history # <<>>
    /\ sessions[ret.session_id].history # <<>>

\* C11: every result a cache-miss run_full_pipeline returns, the mock answer
\* included, is stored in query_cache under (query, pdf_path, session_id); an
\* entry keeps its value for as long as it is present; and a call whose key is
\* present is answered with that stored result without any LLM attempt.
C11_MissResultStaysCached ==
    [][/\ IsMiss(ret') =>
             /\ KeyOf(ret') \notin DOMAIN query_cache.data
             /\ KeyOf(ret') \in DOMAIN query_cache'.data
             /\ query_cache'.data[KeyOf(ret')] = ret'.result
       /\ \A k \in DOMAIN query_cache.data \cap DOMAIN query_cache'.data :
             query_cache'.data[k] = query_cache.data[k]
       /\ IsHit(ret') =>
             /\ ret'.result = query_cache.data[KeyOf(ret')]
             /\ ~ret'.llm_invoked
             /\ ret'.llm = ""
       /\ (ret'.op = "run_full_pipeline" /\ ret' # ret
              /\ KeyOf(ret') \in DOMAIN query_cache.data) => ret'.hit]_vars

\* C11 witness: with an API key set, a repeated call was answered with the
\* mock result cached by an earlier call that fell back
C11_MockServedAgain ==
    /\ IsHit(ret)
    /\ groq_api_key # ""
    /\ ret.result.answer.template = "pipeline_mock"
    /\ query_cache.counter[KeyOf(ret)] >= 2


\* C12: reset_memory(s) leaves query_cache as it is, so a later
\* run_full_pipeline(q, p, s) whose key was cached before the reset returns
\* the answer stored then, and s's history, empty since the reset, is still
\* empty after that call.
C12_ResetKeepsCachedAnswers ==
    [][/\ (ret'.op = "reset_memory" /\ ret' # ret) =>
             /\ query_cache' = query_cache
             /\ \A k \in DOMAIN query_cache.data :
                   k[3] = ret'.session_id => HistoryOf(sessions', k[3]) = <<>>
       /\ (IsHit(ret') /\ HistoryOf(sessions, ret'.session_id) = <<>>) =>
             /\ ret'.result = query_cache.data[KeyOf(ret')]
             /\ ret'.result.answer.template \in {"pipeline_mock", "llm"}
             /\ ret'.session_id \in DOMAIN sessions'
             /\ sessions'[ret'.session_id] = EmptyMemory]_vars

\* C12 witness: after a reset of its session, a call was answered with the
\* LLM answer cached before the reset, and the session's history is empty
C12_StaleAnswerAfterReset ==
    /\ IsHit(ret)
    /\ ret.result.answer.template = "llm"
    /\ ret.session_id \in DOMAIN sessions
    /\ sessions[ret.session_id].history = <<>>
    /\ query_cache.data[KeyOf(ret)] = ret.result

\* C13: a call get_or_create_indexes(p) for a p not in pdf_cache stores an
\* index for p, with an empty text list when the file is missing or
\* unreadable; a call for a p in pdf_cache returns the stored index whatever
\* is on disk by then; and a stored index keeps its value until evicted.
C13_IndexCachedOnceStored ==
    [][/\ (ret'.op = "get_or_create_indexes" /\ pdf_cache' # pdf_cache) =>
             LET p == ret'.pdf_path
             IN /\ p \in DOMAIN pdf_cache'.data
                /\ pdf_cache'.data[p] = ret'.index
                /\ ret'.index.pdf_path = p
                /\ ret'.hit = (p \in DOMAIN pdf_cache.data)
                /\ IF p \in DOMAIN pdf_cache.data
                   THEN ret'.index = pdf_cache.data[p]
                   ELSE /\ ret'.index.texts \in {<<>>, Document(p)}
                        /\ p \notin files => ret'.index.texts = <<>>
       /\ \A k \in DOMAIN pdf_cache.data \cap DOMAIN pdf_cache'.data :
             pdf_cache'.data[k] = pdf_cache.data[k]]_vars

\* C13 witness: a call returned the empty index cached while the file was
\* missing or unreadable, although a file is at that path now
C13_EmptyIndexServedForPresentFile ==
    /\ ret.op = "get_or_create_indexes"
    /\ ret.hit
    /\ ret.index.texts = <<>>
    /\ ret.pdf_path \in files
    /\ pdf_cache.data[ret.pdf_path].texts = <<>>

\* the number of entries of words that are substrings of t, an entry that
\* occurs twice in words counted twice
RECURSIVE HitCount(_, _)
HitCount(words, t) ==
    IF words = <<>> THEN 0
    ELSE (IF IsSubstring(Head(words), t) THEN 1 ELSE 0) + HitCount(Tail(words), t)

\* the plain text, compared as it is
AsIs(t) == t

\* r is what the claim asks of a search for query in texts with limit k, the
\* words being looked for in Form(text): at most k texts, each with a score
\* of at least 1, in non-increasing order of score, and r[i] is the text of
\* rank i when the scoring texts are ranked by higher score first and, among
\* equal scores, by position in texts (so ties keep their order and no text
\* of higher score than a returned one is left out)
SearchPostcondition(query, texts, k, r, Form(_)) ==
    LET words == Split(Lower(query))
        sc(t) == HitCount(words, Form(t))
        scoring == {i \in 1..Len(texts) : sc(texts[i]) > 0}
        before(j, i) == \/ sc(texts[j]) > sc(texts[i])
                        \/ sc(texts[j]) = sc(texts[i]) /\ j < i
        rank(i) == 1 + Cardinality({j \in scoring : before(j, i)})
    IN /\ Len(r) <= k
       /\ \A i \in 1..Len(r) : sc(r[i]) >= 1
       /\ \A i, j \in 1..Len(r) : i < j => sc(r[i]) >= sc(r[j])
       /\ \A i \in 1..Len(r) :
             \E p \in scoring : rank(p) = i /\ r[i] = texts[p]

\* C14 (as stated): the search returns at most k texts, each containing a
\* lower-cased query word as a substring, in non-increasing order of the
\* number of query words that are substrings of the text, ties in their
\* original order and no higher-scoring text omitted.
C14_SearchAsStated ==
    ret.op = "simple_text_search" =>
        SearchPostcondition(ret.user_query, ret.index.texts, ret.k, ret.passages, AsIs)

\* C14 (amended): the same, the query words being looked for in the
\* lower-cased text: the search returns at most k texts, the lower-cased form
\* of each containing a lower-cased query word, in non-increasing order of the
\* number of query words (repeats counted) that are substrings of the
\* lower-cased text, ties in their original order and no higher-scoring text
\* omitted.
C14_SearchCaseInsensitive ==
    ret.op = "simple_text_search" =>
        SearchPostcondition(ret.user_query, ret.index.texts, ret.k, ret.passages, Lower)

\* C14 witness: three texts scored, two were returned for k = 2 with equal
\* scores, and one of them matches only in its lower-cased form
C14_TruncatedTieWithUpperCase ==
    /\ ret.op = "simple_text_search"
    /\ ret.k = 2
    /\ Len(ret.passages) = 2
    /\ Len(ret.index.texts) = 3
    /\ LET words == Split(Lower(ret.user_query))
       IN /\ \A i \in 1..3 : HitCount(words, Lower(ret.index.texts[i])) > 0
          /\ HitCount(words, Lower(ret.passages[1])) = HitCount(words, Lower(ret.passages[2]))
          /\ \E i \in 1..2 : HitCount(words, ret.passages[i]) = 0

\* C15: a query or a delete for a pdf_id that is not in uploaded_pdfs returns
\* 404 and leaves uploaded_pdfs unchanged, and a query for a pdf_id that is in
\* uploaded_pdfs succeeds and leaves uploaded_pdfs unchanged.
C15_UnknownIdNotFound ==
    [][(resp'.op \in {"query", "delete"} /\ resp' # resp) =>
          /\ resp'.known = (resp'.pdf_id \in DOMAIN uploaded_pdfs)
          /\ resp'.pdf_id \notin DOMAIN uploaded_pdfs =>
                /\ resp'.status = 404
                /\ uploaded_pdfs' = uploaded_pdfs
          /\ resp'.pdf_id \in DOMAIN uploaded_pdfs => resp'.status # 404
          /\ resp'.op = "query" =>
                /\ uploaded_pdfs' = uploaded_pdfs
                /\ resp'.pdf_id \in DOMAIN uploaded_pdfs => resp'.status = 200]_vars

\* C15 witness: a delete for an id that is not mapped got 404 while another
\* id is mapped
C15_UnknownDeleteBesideMappedId ==
    /\ resp.op = "delete"
    /\ ~resp.known
    /\ resp.status = 404
    /\ DOMAIN uploaded_pdfs # {}
    /\ resp.pdf_id \notin DOMAIN uploaded_pdfs

\* an upload that resumes and is accepted in this step takes an id that was
\* not mapped and leaves every mapping in place
UploadAddsOwnId ==
    (resp'.op = "upload" /\ resp'.status = 200
        /\ inflight' # inflight /\ inflight' \subseteq inflight) =>
        /\ resp'.pdf_id \notin DOMAIN uploaded_pdfs
        /\ resp'.pdf_id \in DOMAIN uploaded_pdfs'
        /\ \A id \in DOMAIN uploaded_pdfs :
              /\ id \in DOMAIN uploaded_pdfs'
              /\ uploaded_pdfs'[id] = uploaded_pdfs[id]

\* this step handles a DELETE for the pdf_id of the DELETE handled last,
\* which had found the id present; no response was sent in between
SecondDeleteOfSameId ==
    /\ resp.op = "delete"
    /\ resp.known
    /\ resp'.op = "delete"
    /\ resp' # resp
    /\ resp'.pdf_id = resp.pdf_id

=============================================================================
